---- MODULE Spec2Model ----
(***************************************************************************)
(* Model of gildas/go-flags: the single-valued EnumFlag and the            *)
(* multi-valued EnumSliceFlag.                                             *)
(*                                                                         *)
(* A Go string is a sequence of one-character strings, so that             *)
(* strings.Split, strings.HasPrefix and strings.TrimPrefix are computed    *)
(* and not assumed.  A Go []string is a sequence of such strings.          *)
(***************************************************************************)
EXTENDS Integers, Sequences, FiniteSets, TLC

VARIABLES
    Allowed,        \* EnumSliceFlag.Allowed
    Values,         \* EnumSliceFlag.Values
    Default,        \* EnumSliceFlag.Default
    AllowedFunc,    \* EnumSliceFlag.AllowedFunc (the resolver)
    AllAllowed,     \* EnumSliceFlag.AllAllowed
    all,            \* EnumSliceFlag.all
    EnumAllowed,    \* EnumFlag.Allowed
    EnumAllowedFunc,\* EnumFlag.AllowedFunc (the resolver)
    Value,          \* EnumFlag.Value
    lastOp,         \* the call that has just returned: [name, args]
    err,            \* what that call returned: "nil" or "ArgumentInvalid"
    comp,           \* what a completion callback returned: [candidates, directive]
    prev            \* Values, all and Value as they were before that call

vars == <<Allowed, Values, Default, AllowedFunc, AllAllowed, all,
          EnumAllowed, EnumAllowedFunc, Value, lastOp, err, comp, prev>>

sliceVars == <<Allowed, Values, Default, AllowedFunc, AllAllowed, all>>
enumVars == <<EnumAllowed, EnumAllowedFunc, Value>>

-----------------------------------------------------------------------------
(* Bounds of the model *)

MaxArgs == 3        \* entries given to a static constructor
MaxBatch == 2       \* comma-separated tokens in one raw input of Set

-----------------------------------------------------------------------------
(* The strings the model draws its inputs from *)

one == <<"o", "n", "e">>
two == <<"t", "w", "o">>
three == <<"t", "h", "r", "e", "e">>
four == <<"f", "o", "u", "r">>
One == <<"O", "n", "e">>
allToken == <<"a", "l", "l">>
empty == <<>>

Names == <<one, two, three, four>>      \* the names a constructor is given, in order
Tokens == {one, two, four, allToken, empty}    \* the tokens of a raw input

Plus(s) == <<"+">> \o s

-----------------------------------------------------------------------------
(* Library functions the flags call *)

HasPrefix(s, p) ==
    /\ Len(s) >= Len(p)
    /\ SubSeq(s, 1, Len(p)) = p

TrimPrefix(s, p) ==
    IF HasPrefix(s, p) THEN SubSeq(s, Len(p) + 1, Len(s)) ELSE s

RECURSIVE SplitFrom(_, _, _)
SplitFrom(s, i, cur) ==
    IF i > Len(s) THEN <<cur>>
    ELSE IF s[i] = "," THEN <<cur>> \o SplitFrom(s, i + 1, <<>>)
    ELSE SplitFrom(s, i + 1, Append(cur, s[i]))

Split(s) == SplitFrom(s, 1, <<>>)

RECURSIVE Join(_)
Join(list) ==
    IF Len(list) = 0 THEN <<>>
    ELSE IF Len(list) = 1 THEN list[1]
    ELSE list[1] \o <<",">> \o Join(Tail(list))

Contains(list, v) == \E i \in 1..Len(list) : list[i] = v

-----------------------------------------------------------------------------
(* Inputs *)

SeqsUpTo(S, n) == UNION {[1..k -> S] : k \in 0..n}

\* The raw strings given to Set: the comma-joined token lists
RawInputs == {Join(ts) : ts \in SeqsUpTo(Tokens, MaxBatch)}

\* The raw strings given to Append
AppendInputs == {four, two, Join(<<two, four>>)}

\* The lists given to Replace
ReplaceInputs == {<<>>, <<one>>, <<four, one>>, <<one, one>>}

\* The argument lists given to the static constructors: the first k names
\* (distinct, as the allowed values are a set), each with or without the "+"
\* marker
ArgLists ==
    UNION {{[i \in 1..k |-> IF i \in marked THEN Plus(Names[i]) ELSE Names[i]] :
                marked \in SUBSET (1..k)} : k \in 1..MaxArgs}

\* The resolver of a flag: none, one that returns a list, one that fails
NoFunc == [nil |-> TRUE, list |-> <<>>, fails |-> FALSE]
Resolvers == {[nil |-> FALSE, list |-> <<one, two, three>>, fails |-> FALSE],
              [nil |-> FALSE, list |-> <<>>, fails |-> TRUE],
              [nil |-> FALSE, list |-> <<one>>, fails |-> TRUE]}

\* The default lists given to the resolver constructors
DefaultLists == {<<>>, <<one>>, <<one, three>>}

-----------------------------------------------------------------------------
(* EnumSliceFlag *)

\* the constructor's loop keeping the first marked entry as the only default
RECURSIVE NewEnumSliceFlagLoopFirstDefault(_, _, _, _)
NewEnumSliceFlagLoopFirstDefault(allowed, i, allowedValues, defaultValues) ==
    IF i > Len(allowed) THEN [Allowed |-> allowedValues, Default |-> defaultValues]
    ELSE IF HasPrefix(allowed[i], <<"+">>)
         THEN NewEnumSliceFlagLoopFirstDefault(allowed, i + 1,
                  Append(allowedValues, TrimPrefix(allowed[i], <<"+">>)),
                  IF defaultValues = <<>>
                  THEN <<TrimPrefix(allowed[i], <<"+">>)>> ELSE defaultValues)
         ELSE NewEnumSliceFlagLoopFirstDefault(allowed, i + 1,
                  Append(allowedValues, allowed[i]), defaultValues)

RECURSIVE NewEnumSliceFlagLoop(_, _, _, _)
NewEnumSliceFlagLoop(allowed, i, allowedValues, defaultValues) ==
    IF i > Len(allowed) THEN [Allowed |-> allowedValues, Default |-> defaultValues]
    ELSE IF HasPrefix(allowed[i], <<"+">>)
         THEN NewEnumSliceFlagLoop(allowed, i + 1,
                  Append(allowedValues, TrimPrefix(allowed[i], <<"+">>)),
                  Append(defaultValues, TrimPrefix(allowed[i], <<"+">>)))
         ELSE NewEnumSliceFlagLoop(allowed, i + 1,
                  Append(allowedValues, allowed[i]), defaultValues)

NewEnumSliceFlag(allowed) ==
    LET r == NewEnumSliceFlagLoop(allowed, 1, <<>>, <<>>)
    IN  [Allowed |-> r.Allowed, Values |-> <<>>, Default |-> r.Default,
         AllowedFunc |-> NoFunc, AllAllowed |-> FALSE, all |-> FALSE]

NewEnumSliceFlagWithFunc(allowedFunc, defaultvalues) ==
    [Allowed |-> <<>>, Values |-> <<>>, Default |-> defaultvalues,
     AllowedFunc |-> allowedFunc, AllAllowed |-> FALSE, all |-> FALSE]

NewEnumSliceFlagWithAllAllowed(allowed) ==
    [NewEnumSliceFlag(allowed) EXCEPT !.AllAllowed = TRUE]

NewEnumSliceFlagWithAllAllowedAndFunc(allowedFunc, defaultvalues) ==
    [NewEnumSliceFlagWithFunc(allowedFunc, defaultvalues) EXCEPT !.AllAllowed = TRUE]

\* Append's loop body without the core.Contains test
AppendOneUnchecked(values, v) == Append(values, v)

\* Append's loop body: a token is added unless Values holds it already
AppendOne(values, v) ==
    IF ~Contains(values, v) THEN Append(values, v) ELSE values

RECURSIVE AppendLoop(_, _, _)
AppendLoop(values, tokens, i) ==
    IF i > Len(tokens) THEN values
    ELSE AppendLoop(AppendOne(values, tokens[i]), tokens, i + 1)

\* func (flag *EnumSliceFlag) Append(value string) error
AppendCall(flag, value) ==
    [flag |-> [flag EXCEPT !.Values = AppendLoop(flag.Values, Split(value), 1)],
     err |-> "nil"]

\* the body of Set's inner loop, adding the token at the front of Values
SetAcceptAtFront(acc, v) ==
    [found |-> TRUE,
     values |-> IF ~Contains(acc.values, v) THEN <<v>> \o acc.values ELSE acc.values]

\* the body of Set's inner loop for a token v that equals an allowed value
SetAccept(acc, v) ==
    [found |-> TRUE,
     values |-> IF ~Contains(acc.values, v) THEN Append(acc.values, v) ELSE acc.values]

\* the inner loop of Set, over flag.Allowed, for one token v
RECURSIVE SetInner(_, _, _, _)
SetInner(acc, allowed, v, j) ==
    IF j > Len(allowed) THEN acc
    ELSE IF v = allowed[j]
         THEN SetInner(SetAccept(acc, v), allowed, v, j + 1)
         ELSE SetInner(acc, allowed, v, j + 1)

\* the outer loop of Set, over the tokens of the raw input
RECURSIVE SetOuter(_, _, _, _)
SetOuter(acc, allowed, tokens, i) ==
    IF i > Len(tokens) THEN acc
    ELSE SetOuter(SetInner(acc, allowed, tokens[i], 1), allowed, tokens, i + 1)

\* Set's loops with found starting out true
SetLoopFoundAtStart(flag, value) ==
    SetOuter([found |-> TRUE, values |-> flag.Values], flag.Allowed, Split(value), 1)

\* Set's loops stopping after the first token of the raw input
SetLoopFirstToken(flag, value) ==
    SetOuter([found |-> FALSE, values |-> flag.Values], flag.Allowed,
             <<Split(value)[1]>>, 1)

\* found := false; for _, v := range strings.Split(value, ",") { ... }
SetLoop(flag, value) ==
    SetOuter([found |-> FALSE, values |-> flag.Values], flag.Allowed, Split(value), 1)

\* the "all" shorthand raising the mark only
SetAllMarkOnly(flag) == [flag EXCEPT !.all = TRUE]

\* the "all" shorthand of Set
SetAll(flag) == [flag EXCEPT !.Values = flag.Allowed, !.all = TRUE]

\* Set without the validation against Allowed
SetCallUnvalidated(flag, value) == AppendCall(flag, value)

\* Set taking "all" as the shorthand on every static flag, AllAllowed or not
SetCallAllAlways(flag, value) ==
    IF ~flag.AllowedFunc.nil /\ Len(flag.Allowed) = 0
    THEN AppendCall(flag, value)
    ELSE IF value = allToken
    THEN [flag |-> [flag EXCEPT !.Values = flag.Allowed, !.all = TRUE], err |-> "nil"]
    ELSE [flag |-> [flag EXCEPT !.Values = SetLoop(flag, value).values],
          err |-> IF SetLoop(flag, value).found THEN "nil" ELSE "ArgumentInvalid"]

\* func (flag *EnumSliceFlag) Set(value string) (err error)
SetCall(flag, value) ==
    IF ~flag.AllowedFunc.nil /\ Len(flag.Allowed) = 0
    THEN AppendCall(flag, value)
    ELSE IF value = allToken /\ flag.AllAllowed
    THEN [flag |-> SetAll(flag), err |-> "nil"]
    ELSE LET r == SetLoop(flag, value)
         IN  [flag |-> [flag EXCEPT !.Values = r.values],
              err |-> IF r.found THEN "nil" ELSE "ArgumentInvalid"]

\* func (flag *EnumSliceFlag) Replace(values []string) error
RECURSIVE ReplaceLoop(_, _, _)
ReplaceLoop(flag, values, i) ==
    IF i > Len(values) THEN flag
    ELSE ReplaceLoop(AppendCall(flag, values[i]).flag, values, i + 1)

\* Replace starting from a flag without the all mark
ReplaceCallResettingAll(flag, values) ==
    [flag |-> ReplaceLoop([flag EXCEPT !.Values = <<>>, !.all = FALSE], values, 1),
     err |-> "nil"]

ReplaceCall(flag, values) ==
    [flag |-> ReplaceLoop([flag EXCEPT !.Values = <<>>], values, 1), err |-> "nil"]

\* GetSlice without the "all" marker
GetSliceNoMark(flag) ==
    IF Len(flag.Values) = 0 THEN flag.Default ELSE flag.Values

\* GetSlice testing the all mark before the empty Values
GetSliceAllFirst(flag) ==
    IF flag.all THEN <<allToken>> \o flag.Values
    ELSE IF Len(flag.Values) = 0 THEN flag.Default
    ELSE flag.Values

\* func (flag EnumSliceFlag) GetSlice() []string
GetSliceOf(flag) ==
    IF Len(flag.Values) = 0 THEN flag.Default
    ELSE IF flag.all THEN <<allToken>> \o flag.Values
    ELSE flag.Values

\* func (flag EnumSliceFlag) String() string
StringOf(flag) == <<"[">> \o Join(flag.Values) \o <<"]">>

\* cmd.Flags().GetStringSlice(flagName): the flag's String() without its
\* brackets, read back as comma-separated values
GetStringSlice(flag) ==
    LET sval == StringOf(flag)
        inner == SubSeq(sval, 2, Len(sval) - 1)
    IN  IF Len(inner) = 0 THEN <<>> ELSE Split(inner)

\* the static candidates without the filter on the current values
NotSelectedUnfiltered(allowed, current) == allowed

\* for _, value := range flag.Allowed { if !core.Contains(current, value) ... }
NotSelected(allowed, current) ==
    SelectSeq(allowed, LAMBDA value : ~Contains(current, value))

\* "all" offered whatever candidates are left
OfferAllAlways(flag, allowed) ==
    IF flag.AllAllowed THEN Append(allowed, allToken) ELSE allowed

\* if flag.AllAllowed && len(allowed) > 0 { allowed = append(allowed, "all") }
OfferAll(flag, allowed) ==
    IF flag.AllAllowed /\ Len(allowed) > 0 THEN Append(allowed, allToken) ELSE allowed

\* the resolver branch of the callback with the resolver's error dropped
CompletionResolvedIgnoringErr(flag) ==
    [candidates |-> OfferAll(flag, flag.AllowedFunc.list),
     directive |-> "ShellCompDirectiveDefault"]

\* allowed, err = flag.AllowedFunc(cmd.Context(), cmd, args, toComplete)
CompletionResolved(flag) ==
    IF flag.AllowedFunc.fails
    THEN [candidates |-> <<>>, directive |-> "ShellCompDirectiveError"]
    ELSE [candidates |-> OfferAll(flag, flag.AllowedFunc.list),
          directive |-> "ShellCompDirectiveDefault"]

\* the callback returned by func (flag EnumSliceFlag) CompletionFunc(flagName
\* string).  The receiver is a copy taken at registration; Allowed,
\* AllowedFunc and AllAllowed, the fields it reads, do not change afterwards,
\* and the current values are read from the registered flag.
CompletionCall(flag) ==
    IF ~flag.AllowedFunc.nil
    THEN CompletionResolved(flag)
    ELSE [candidates |-> OfferAll(flag, NotSelected(flag.Allowed, GetStringSlice(flag))),
          directive |-> "ShellCompDirectiveDefault"]

-----------------------------------------------------------------------------
(* The flag the state holds *)

NoComp == [candidates |-> <<>>, directive |-> "none"]
NoPrev == [Values |-> <<>>, all |-> FALSE, Value |-> <<>>]

Flag == [Allowed |-> Allowed, Values |-> Values, Default |-> Default,
         AllowedFunc |-> AllowedFunc, AllAllowed |-> AllAllowed, all |-> all]

GetSlice == GetSliceOf(Flag)

Install(flag) ==
    /\ Allowed' = flag.Allowed
    /\ Values' = flag.Values
    /\ Default' = flag.Default
    /\ AllowedFunc' = flag.AllowedFunc
    /\ AllAllowed' = flag.AllAllowed
    /\ all' = flag.all

\* The flags the constructors build, each with the strings it was built from
Constructed ==
    {[flag |-> NewEnumSliceFlag(a), args |-> a] : a \in ArgLists}
    \cup {[flag |-> NewEnumSliceFlagWithAllAllowed(a), args |-> a] : a \in ArgLists}
    \cup {[flag |-> NewEnumSliceFlagWithFunc(f, d), args |-> d] :
              f \in Resolvers, d \in DefaultLists}
    \cup {[flag |-> NewEnumSliceFlagWithAllAllowedAndFunc(f, d), args |-> d] :
              f \in Resolvers, d \in DefaultLists}

Init ==
    /\ \E c \in Constructed :
          /\ Allowed = c.flag.Allowed
          /\ Values = c.flag.Values
          /\ Default = c.flag.Default
          /\ AllowedFunc = c.flag.AllowedFunc
          /\ AllAllowed = c.flag.AllAllowed
          /\ all = c.flag.all
          /\ lastOp = [name |-> "New", args |-> c.args]
    /\ EnumAllowed = <<>>
    /\ EnumAllowedFunc = NoFunc
    /\ Value = <<>>
    /\ err = "nil"
    /\ comp = NoComp
    /\ prev = NoPrev

\* No call is in progress and the caller has consumed the last result
Idle == lastOp.name \in {"New", "Idle"}

Record(name, args, r) ==
    /\ Install(r.flag)
    /\ lastOp' = [name |-> name, args |-> args]
    /\ err' = r.err
    /\ comp' = NoComp
    /\ prev' = [Values |-> Values, all |-> all, Value |-> Value]
    /\ UNCHANGED enumVars

Set(value) ==
    /\ Idle
    /\ Record("Set", <<value>>, SetCall(Flag, value))

FlagAppend(value) ==
    /\ Idle
    /\ Record("Append", <<value>>, AppendCall(Flag, value))

Replace(values) ==
    /\ Idle
    /\ Record("Replace", values, ReplaceCall(Flag, values))

Completion ==
    /\ Idle
    /\ lastOp' = [name |-> "Completion", args |-> <<>>]
    /\ err' = "nil"
    /\ comp' = CompletionCall(Flag)
    /\ prev' = [Values |-> Values, all |-> all, Value |-> Value]
    /\ UNCHANGED <<sliceVars, enumVars>>

\* The caller has read the result of the call and goes on
Return ==
    /\ ~Idle
    /\ lastOp' = [name |-> "Idle", args |-> <<>>]
    /\ err' = "nil"
    /\ comp' = NoComp
    /\ prev' = NoPrev
    /\ UNCHANGED <<sliceVars, enumVars>>

Next ==
    \/ \E value \in RawInputs : Set(value)
    \/ \E value \in AppendInputs : FlagAppend(value)
    \/ \E values \in ReplaceInputs : Replace(values)
    \/ Completion
    \/ Return

Spec == Init /\ [][Next]_vars

\* The flag driven by Set calls alone
NextSet ==
    \/ \E value \in RawInputs : Set(value)
    \/ Completion
    \/ Return

SpecSet == Init /\ [][NextSet]_vars

-----------------------------------------------------------------------------
(* EnumFlag *)

\* The values given to EnumFlag.Set
EnumInputs == {one, two, three, four, One, empty}

\* The defaults given to NewEnumFlagWithFunc
EnumDefaults == {one, empty}

\* the constructor's loop taking every marked entry as the default in turn
RECURSIVE NewEnumFlagLoopLastDefault(_, _, _, _)
NewEnumFlagLoopLastDefault(allowed, i, allowedValues, defaultValue) ==
    IF i > Len(allowed) THEN [Allowed |-> allowedValues, Value |-> defaultValue]
    ELSE IF HasPrefix(allowed[i], <<"+">>)
         THEN NewEnumFlagLoopLastDefault(allowed, i + 1,
                  Append(allowedValues, TrimPrefix(allowed[i], <<"+">>)),
                  TrimPrefix(allowed[i], <<"+">>))
         ELSE NewEnumFlagLoopLastDefault(allowed, i + 1,
                  Append(allowedValues, allowed[i]), defaultValue)

\* the constructor's loop stripping the marker from every marked entry
RECURSIVE NewEnumFlagLoopStripAll(_, _, _, _)
NewEnumFlagLoopStripAll(allowed, i, allowedValues, defaultValue) ==
    IF i > Len(allowed) THEN [Allowed |-> allowedValues, Value |-> defaultValue]
    ELSE IF HasPrefix(allowed[i], <<"+">>)
         THEN NewEnumFlagLoopStripAll(allowed, i + 1,
                  Append(allowedValues, TrimPrefix(allowed[i], <<"+">>)),
                  IF defaultValue = <<>>
                  THEN TrimPrefix(allowed[i], <<"+">>) ELSE defaultValue)
         ELSE NewEnumFlagLoopStripAll(allowed, i + 1,
                  Append(allowedValues, allowed[i]), defaultValue)

RECURSIVE NewEnumFlagLoop(_, _, _, _)
NewEnumFlagLoop(allowed, i, allowedValues, defaultValue) ==
    IF i > Len(allowed) THEN [Allowed |-> allowedValues, Value |-> defaultValue]
    ELSE IF HasPrefix(allowed[i], <<"+">>) /\ defaultValue = <<>>
         THEN NewEnumFlagLoop(allowed, i + 1,
                  Append(allowedValues, TrimPrefix(allowed[i], <<"+">>)),
                  TrimPrefix(allowed[i], <<"+">>))
         ELSE NewEnumFlagLoop(allowed, i + 1,
                  Append(allowedValues, allowed[i]), defaultValue)

NewEnumFlag(allowed) ==
    LET r == NewEnumFlagLoop(allowed, 1, <<>>, <<>>)
    IN  [Allowed |-> r.Allowed, AllowedFunc |-> NoFunc, Value |-> r.Value]

NewEnumFlagWithFunc(defaultValue, allowedFunc) ==
    [Allowed |-> <<>>, AllowedFunc |-> allowedFunc, Value |-> defaultValue]

\* func (flag *EnumFlag) Set(value string) (err error)
EnumSetCall(flag, value) ==
    [flag |-> [flag EXCEPT !.Value = value], err |-> "nil"]

\* the EnumFlag callback leaving the current value out of the candidates
EnumCompletionCallUnselected(flag) ==
    [flag |-> flag,
     candidates |-> SelectSeq(IF flag.AllowedFunc.nil THEN flag.Allowed
                              ELSE flag.AllowedFunc.list,
                              LAMBDA v : v # flag.Value),
     directive |-> "ShellCompDirectiveDefault"]

\* the callback returned by func (flag *EnumFlag) CompletionFunc(flagName string)
EnumCompletionCall(flag) ==
    IF ~flag.AllowedFunc.nil
    THEN LET f == [flag EXCEPT !.Allowed = flag.AllowedFunc.list]
         IN  IF flag.AllowedFunc.fails
             THEN [flag |-> f, candidates |-> <<>>, directive |-> "ShellCompDirectiveError"]
             ELSE [flag |-> f, candidates |-> f.Allowed,
                   directive |-> "ShellCompDirectiveDefault"]
    ELSE [flag |-> flag, candidates |-> flag.Allowed,
          directive |-> "ShellCompDirectiveDefault"]

EnumFlag == [Allowed |-> EnumAllowed, AllowedFunc |-> EnumAllowedFunc, Value |-> Value]

EnumConstructed ==
    {[flag |-> NewEnumFlag(a), args |-> a] : a \in ArgLists}
    \cup {[flag |-> NewEnumFlagWithFunc(d, f), args |-> <<d>>] :
              d \in EnumDefaults, f \in Resolvers}

InitEnum ==
    /\ \E c \in EnumConstructed :
          /\ EnumAllowed = c.flag.Allowed
          /\ EnumAllowedFunc = c.flag.AllowedFunc
          /\ Value = c.flag.Value
          /\ lastOp = [name |-> "New", args |-> c.args]
    /\ Allowed = <<>>
    /\ Values = <<>>
    /\ Default = <<>>
    /\ AllowedFunc = NoFunc
    /\ AllAllowed = FALSE
    /\ all = FALSE
    /\ err = "nil"
    /\ comp = NoComp
    /\ prev = [Values |-> <<>>, all |-> FALSE, Value |-> Value]

EnumInstall(flag) ==
    /\ EnumAllowed' = flag.Allowed
    /\ EnumAllowedFunc' = flag.AllowedFunc
    /\ Value' = flag.Value

EnumRecord(name, args, r) ==
    /\ EnumInstall(r.flag)
    /\ lastOp' = [name |-> name, args |-> args]
    /\ err' = r.err
    /\ comp' = [candidates |-> r.candidates, directive |-> r.directive]
    /\ prev' = [Values |-> <<>>, all |-> FALSE, Value |-> Value]
    /\ UNCHANGED sliceVars

EnumSet(value) ==
    /\ Idle
    /\ EnumRecord("Set", <<value>>,
                  [flag |-> EnumSetCall(EnumFlag, value).flag,
                   err |-> EnumSetCall(EnumFlag, value).err,
                   candidates |-> <<>>, directive |-> "none"])

EnumCompletion ==
    /\ Idle
    /\ EnumRecord("Completion", <<>>,
                  [flag |-> EnumCompletionCall(EnumFlag).flag,
                   err |-> "nil",
                   candidates |-> EnumCompletionCall(EnumFlag).candidates,
                   directive |-> EnumCompletionCall(EnumFlag).directive])

NextEnum ==
    \/ \E value \in EnumInputs : EnumSet(value)
    \/ EnumCompletion
    \/ Return

SpecEnum == InitEnum /\ [][NextEnum]_vars

-----------------------------------------------------------------------------
(* EnumSliceFlag of src/enumslice_flag.go: the revision that has Contains.    *)
(* Its resolver returns a list and no error, and Set calls it every time.     *)

\* The resolvers given to the constructors of that revision
PriorResolvers ==
    {[nil |-> FALSE, list |-> <<one, two, three>>, fails |-> FALSE,
      defaults |-> <<one, two>>],
     [nil |-> FALSE, list |-> <<two>>, fails |-> FALSE, defaults |-> <<>>]}

\* The strings Contains is asked about
Candidates == {one, two, three, four, allToken, empty}

PriorNewEnumSliceFlagWithFunc(allowedFunc) ==
    [Allowed |-> <<>>, Values |-> <<>>, Default |-> <<>>,
     AllowedFunc |-> allowedFunc, AllAllowed |-> FALSE, all |-> FALSE]

PriorNewEnumSliceFlagWithAllAllowedAndFunc(allowedFunc) ==
    [PriorNewEnumSliceFlagWithFunc(allowedFunc) EXCEPT !.AllAllowed = TRUE]

PriorSetCall(flag, value) ==
    LET resolved == IF ~flag.AllowedFunc.nil
                    THEN [flag EXCEPT !.Allowed = flag.AllowedFunc.list]
                    ELSE flag
    IN  IF value = allToken /\ resolved.AllAllowed
        THEN [flag |-> SetAll(resolved), err |-> "nil"]
        ELSE LET r == SetLoop(resolved, value)
             IN  [flag |-> [resolved EXCEPT !.Values = r.values],
                  err |-> IF r.found THEN "nil" ELSE "ArgumentInvalid"]

\* func (flag EnumSliceFlag) Get() []string: the resolver asked with
\* "__default__" answers with its defaults
GetOf(flag) ==
    IF Len(flag.Values) = 0
    THEN IF ~flag.AllowedFunc.nil THEN flag.AllowedFunc.defaults ELSE flag.Default
    ELSE flag.Values

\* Contains answering from the list Get returns
ContainsWithDefaults(flag, value) ==
    IF flag.all /\ value = allToken THEN TRUE
    ELSE IF ~Contains(flag.Allowed, value) THEN FALSE
    ELSE IF flag.all THEN TRUE
    ELSE Contains(GetOf(flag), value)

\* Contains before it knew the "all" marker (src/unnamed/part_002:273-281)
ContainsWithoutAll(flag, value) ==
    IF ~Contains(flag.Allowed, value) THEN FALSE
    ELSE IF flag.all THEN TRUE
    ELSE Contains(flag.Values, value)

ContainsOf(flag, value) ==
    IF flag.all /\ value = allToken THEN TRUE
    ELSE IF ~Contains(flag.Allowed, value) THEN FALSE
    ELSE IF flag.all THEN TRUE
    ELSE Contains(flag.Values, value)

PriorConstructed ==
    {[flag |-> NewEnumSliceFlag(a), args |-> a] : a \in ArgLists}
    \cup {[flag |-> NewEnumSliceFlagWithAllAllowed(a), args |-> a] : a \in ArgLists}
    \cup {[flag |-> PriorNewEnumSliceFlagWithFunc(f), args |-> <<>>] :
              f \in PriorResolvers}
    \cup {[flag |-> PriorNewEnumSliceFlagWithAllAllowedAndFunc(f), args |-> <<>>] :
              f \in PriorResolvers}

InitPrior ==
    /\ \E c \in PriorConstructed :
          /\ Allowed = c.flag.Allowed
          /\ Values = c.flag.Values
          /\ Default = c.flag.Default
          /\ AllowedFunc = c.flag.AllowedFunc
          /\ AllAllowed = c.flag.AllAllowed
          /\ all = c.flag.all
          /\ lastOp = [name |-> "New", args |-> c.args]
    /\ EnumAllowed = <<>>
    /\ EnumAllowedFunc = NoFunc
    /\ Value = <<>>
    /\ err = "nil"
    /\ comp = NoComp
    /\ prev = NoPrev

PriorSet(value) ==
    /\ Idle
    /\ Record("Set", <<value>>, PriorSetCall(Flag, value))

NextPrior ==
    \/ \E value \in RawInputs : PriorSet(value)
    \/ Return

SpecPrior == InitPrior /\ [][NextPrior]_vars

-----------------------------------------------------------------------------
(* Either flag type, set and completed *)

\* The state holds an EnumSliceFlag, respectively an EnumFlag
SliceBuilt == ~(Allowed = <<>> /\ AllowedFunc.nil)
EnumBuilt == ~(EnumAllowed = <<>> /\ EnumAllowedFunc.nil)

InitCompletion == Init \/ InitEnum

NextCompletion ==
    \/ SliceBuilt /\ \E value \in RawInputs : Set(value)
    \/ SliceBuilt /\ Completion
    \/ EnumBuilt /\ \E value \in EnumInputs : EnumSet(value)
    \/ EnumBuilt /\ EnumCompletion
    \/ Return

SpecCompletion == InitCompletion /\ [][NextCompletion]_vars

-----------------------------------------------------------------------------
(* Vocabulary of the properties *)

Static == AllowedFunc.nil
SetReturned == lastOp.name = "Set"
Raw == lastOp.args[1]
FlagBefore == [Flag EXCEPT !.Values = prev.Values, !.all = prev.all]

Members(list) == {list[i] : i \in 1..Len(list)}
NoDuplicates(list) == \A i, j \in 1..Len(list) : list[i] = list[j] => i = j
Occurrences(list, v) == Cardinality({i \in 1..Len(list) : list[i] = v})
IsPrefix(p, list) == Len(p) <= Len(list) /\ SubSeq(list, 1, Len(p)) = p

\* the raw input is taken as the "all" shorthand
AllShorthand(raw) == raw = allToken /\ AllAllowed

-----------------------------------------------------------------------------
(* C1: a static EnumFlag takes Set(v) exactly when v is an entry of Allowed   *)
(* (exact match): then Value becomes v and Set returns nil; for any other v   *)
(* Set returns the invalid-argument error and Value stays as it was.          *)
C1_SetValidates ==
    (SetReturned /\ EnumAllowedFunc.nil) =>
        IF Contains(EnumAllowed, Raw)
        THEN err = "nil" /\ Value = Raw
        ELSE err = "ArgumentInvalid" /\ Value = prev.Value

(* C2: on a static EnumSliceFlag, a Set whose raw input is not the accepted   *)
(* "all" shorthand and has no token in Allowed returns the invalid-argument   *)
(* error and leaves Values and all as they were.                              *)
C2_SetRejectsBatchWithoutValidToken ==
    (SetReturned /\ Static /\ ~AllShorthand(Raw)
        /\ \A t \in Members(Split(Raw)) : ~Contains(Allowed, t)) =>
        /\ err = "ArgumentInvalid"
        /\ Values = prev.Values
        /\ all = prev.all

C2_Witness ==
    /\ SetReturned /\ Static /\ err = "ArgumentInvalid"
    /\ Len(Split(Raw)) = 2
    /\ Len(prev.Values) > 0
    /\ Values = prev.Values

(* C3: Values never holds a string twice, whatever Set, Append and Replace    *)
(* calls were made, and a Set(v) with v in Allowed returns nil and leaves v   *)
(* in Values exactly once.                                                    *)
C3_NoDuplicateValues ==
    /\ NoDuplicates(Values)
    /\ (SetReturned /\ Contains(Allowed, Raw)) =>
           (err = "nil" /\ Occurrences(Values, Raw) = 1)

C3_Witness ==
    /\ SetReturned /\ Contains(Allowed, Raw) /\ err = "nil"
    /\ Contains(prev.Values, Raw)
    /\ Occurrences(Values, Raw) = 1
    /\ Len(Values) > 1

(* C4: on a static EnumSliceFlag driven by Set calls alone, every member of   *)
(* Values is a member of Allowed.                                             *)
C4_ValuesAreAllowed ==
    Static => \A v \in Members(Values) : Contains(Allowed, v)

C4_Witness ==
    /\ SetReturned /\ Static /\ err = "nil"
    /\ \E t \in Members(Split(Raw)) : ~Contains(Allowed, t)
    /\ Len(Values) > Len(prev.Values)

\* the tokens of a batch that are allowed and not yet held, first occurrences,
\* in batch order
RECURSIVE NewValidTokens(_, _, _)
NewValidTokens(tokens, allowed, held) ==
    IF tokens = <<>> THEN <<>>
    ELSE IF Head(tokens) \in allowed /\ Head(tokens) \notin held
         THEN <<Head(tokens)>> \o
              NewValidTokens(Tail(tokens), allowed, held \cup {Head(tokens)})
         ELSE NewValidTokens(Tail(tokens), allowed, held)

(* C5: a Set whose raw input has at least one token in Allowed returns nil;   *)
(* the valid tokens not yet in Values are appended to Values in batch order   *)
(* and the invalid tokens of the batch are dropped.                           *)
C5_SetAcceptsPartialBatch ==
    (SetReturned /\ ~AllShorthand(Raw)
        /\ \E t \in Members(Split(Raw)) : Contains(Allowed, t)) =>
        /\ err = "nil"
        /\ Values = prev.Values \o
               NewValidTokens(Split(Raw), Members(Allowed), Members(prev.Values))

C5_Witness ==
    /\ SetReturned /\ err = "nil"
    /\ Split(Raw) = <<four, two>>
    /\ Contains(Allowed, two)
    /\ ~Contains(Allowed, four)
    /\ prev.Values = <<one>>
    /\ Values = <<one, two>>

\* the values a token may be drawn from to be allowed: the entries of Allowed
\* and, for a flag with a resolver, the entries the resolver returns
AllowedTokens == Members(Allowed) \cup Members(AllowedFunc.list)

\* Set called once per token, in order
RECURSIVE SetEach(_, _)
SetEach(flag, ts) ==
    IF ts = <<>> THEN flag
    ELSE SetEach(SetCall(flag, Head(ts)).flag, Tail(ts))

(* C6: for every list t1..tn of allowed tokens, from every reachable state,   *)
(* one Set of the comma-joined "t1,...,tn" leaves the same Values and the     *)
(* same GetSlice() as Set(t1), ..., Set(tn) made in that order.               *)
C6_BatchEqualsSequence ==
    Idle =>
        \A ts \in SeqsUpTo(AllowedTokens, MaxBatch) \ {<<>>} :
            LET batch == SetCall(Flag, Join(ts)).flag
                each == SetEach(Flag, ts)
            IN  /\ batch.Values = each.Values
                /\ GetSliceOf(batch) = GetSliceOf(each)

C6_Witness ==
    /\ SetReturned /\ err = "nil"
    /\ Split(Raw) = <<two, one>>
    /\ {one, two} \subseteq AllowedTokens
    /\ prev.Values = <<one>>
    /\ Values = <<one, two>>
    /\ Values = SetEach(FlagBefore, Split(Raw)).Values

\* Set took the raw input as the "all" shorthand
AllTaken(raw) ==
    /\ ~(~AllowedFunc.nil /\ Len(Allowed) = 0)
    /\ AllShorthand(raw)

(* C7 as stated: after every successful Set, the "all" shorthand included,    *)
(* each value held before the call is still held and the values held before   *)
(* are a prefix of the new Values.                                            *)
C7_SetKeepsPrefix ==
    (SetReturned /\ err = "nil") =>
        /\ Members(prev.Values) \subseteq Members(Values)
        /\ IsPrefix(prev.Values, Values)

(* C7 amended: after a successful Set other than the accepted "all"           *)
(* shorthand the values held before are a prefix of the new Values; the       *)
(* accepted "all" shorthand replaces Values by Allowed, in the order of       *)
(* Allowed, so that the allowed values held before are still held but their   *)
(* insertion order is not kept.                                               *)
C7_SetAccumulates ==
    (SetReturned /\ err = "nil") =>
        IF AllTaken(Raw)
        THEN /\ Values = Allowed
             /\ \A v \in Members(prev.Values) :
                    Contains(Allowed, v) => Contains(Values, v)
        ELSE IsPrefix(prev.Values, Values)

C7_Witness ==
    /\ SetReturned /\ err = "nil" /\ AllTaken(Raw)
    /\ Len(prev.Values) >= 2
    /\ Members(prev.Values) \subseteq Members(Allowed)
    /\ ~IsPrefix(prev.Values, Values)
    /\ Values = Allowed

(* C8: on every EnumSliceFlag with AllAllowed, static or with a resolver,     *)
(* Set("all") returns nil and sets all to true.                               *)
C8_SetAllSelects ==
    (SetReturned /\ Raw = allToken /\ AllAllowed) => (err = "nil" /\ all)

C10_GetSliceAfterAll ==
    (SetReturned /\ Static /\ AllAllowed /\ Raw = allToken) =>
        /\ err = "nil"
        /\ GetSlice = <<allToken>> \o Allowed

C10_Witness ==
    /\ SetReturned /\ Static /\ AllAllowed /\ Raw = allToken
    /\ Len(Allowed) >= 3
    /\ Len(prev.Values) >= 2
    /\ ~IsPrefix(prev.Values, Allowed)
    /\ ~(Members(prev.Values) \subseteq Members(Allowed))
    /\ GetSlice = <<allToken>> \o Allowed

(* C11: Contains(c) is true when all is set and c is "all"; otherwise false   *)
(* when c is not in Allowed; otherwise true when all is set; otherwise true   *)
(* exactly when c is in Values.  After an accepted Set("all") it is true for  *)
(* "all" and for every allowed value and false for every other string.        *)
C11_ContainsDecides ==
    /\ \A c \in Candidates :
          ContainsOf(Flag, c) =
              IF all /\ c = allToken THEN TRUE
              ELSE IF c \notin Members(Allowed) THEN FALSE
              ELSE IF all THEN TRUE
              ELSE c \in Members(Values)
    /\ (SetReturned /\ AllShorthand(Raw)) =>
          /\ err = "nil"
          /\ \A c \in Candidates :
                ContainsOf(Flag, c) <=> (c = allToken \/ c \in Members(Allowed))

C11_Witness ==
    /\ SetReturned /\ AllShorthand(Raw) /\ err = "nil"
    /\ ~Static
    /\ Len(prev.Values) > 0
    /\ ContainsOf(Flag, allToken)
    /\ ContainsOf(Flag, three)
    /\ ~ContainsOf(Flag, four)

(* C12: from every reachable state, the ones with all set included,           *)
(* Replace(L) returns nil and GetSlice() is then exactly L: no value held     *)
(* before the call and no "all" marker is left in it.  L is read as a         *)
(* non-empty list of distinct values, the lists Replace's duplicate           *)
(* suppression and GetSlice's fallback to Default leave as they are.          *)
C12_ReplaceResets ==
    (lastOp.name = "Replace" /\ Len(lastOp.args) > 0 /\ NoDuplicates(lastOp.args)) =>
        /\ err = "nil"
        /\ GetSlice = lastOp.args

\* The completion callback of the EnumSliceFlag has returned
CompletionReturned == lastOp.name = "Completion"
ResolverFails == ~AllowedFunc.nil /\ AllowedFunc.fails
\* The allowed values not among the current values, in the order of allowed
Unselected(allowed) == SelectSeq(allowed, LAMBDA v : v \notin Members(Values))
WithAllOffered(list) ==
    IF AllAllowed /\ Len(list) > 0 THEN Append(list, allToken) ELSE list

(* C13 as stated: the completion callback returns with the default directive, *)
(* in the order of the allowed list, exactly the allowed values that are not  *)
(* in Values, followed by "all" iff AllAllowed and at least one of them is    *)
(* left; this for the static form and, with the resolver's list as the        *)
(* allowed list, for the resolver form alike.                                 *)
C13_CompletionOffersUnselected ==
    (CompletionReturned /\ ~ResolverFails) =>
        /\ comp.directive = "ShellCompDirectiveDefault"
        /\ comp.candidates =
              WithAllOffered(Unselected(IF Static THEN Allowed ELSE AllowedFunc.list))

(* C13 amended: on a static flag the callback returns the allowed values not  *)
(* in Values, in the order of Allowed, followed by "all" iff AllAllowed and   *)
(* at least one is left; on a flag whose resolver succeeds it returns the     *)
(* resolver's whole list, the values already in Values included, followed by  *)
(* "all" iff AllAllowed and the list is not empty; default directive in both. *)
C13_CompletionFiltersStaticOnly ==
    (CompletionReturned /\ ~ResolverFails) =>
        /\ comp.directive = "ShellCompDirectiveDefault"
        /\ comp.candidates =
              IF Static THEN WithAllOffered(Unselected(Allowed))
              ELSE WithAllOffered(AllowedFunc.list)

C13_Witness ==
    /\ CompletionReturned /\ Static /\ AllAllowed
    /\ Len(Allowed) = 3
    /\ Len(Values) = 1
    /\ Len(comp.candidates) = 3
    /\ comp.candidates[3] = allToken

(* C14: for both flag types, when the resolver returns an error during        *)
(* completion the callback returns an empty candidate list with the error     *)
(* directive (for the EnumSliceFlag without "all", AllAllowed or not): the    *)
(* failure is not turned into a result with the default directive.            *)
C14_CompletionResolverError ==
    /\ (SliceBuilt /\ CompletionReturned /\ ResolverFails) =>
          comp = [candidates |-> <<>>, directive |-> "ShellCompDirectiveError"]
    /\ (EnumBuilt /\ CompletionReturned /\ EnumAllowedFunc.fails) =>
          comp = [candidates |-> <<>>, directive |-> "ShellCompDirectiveError"]

C14_Witness ==
    /\ SliceBuilt /\ CompletionReturned /\ ResolverFails
    /\ AllAllowed
    /\ Len(AllowedFunc.list) > 0
    /\ Len(Values) > 0
    /\ comp.directive = "ShellCompDirectiveError"

\* the same case on the EnumFlag
C14_WitnessEnum ==
    /\ EnumBuilt /\ CompletionReturned /\ EnumAllowedFunc.fails
    /\ Len(EnumAllowedFunc.list) > 0
    /\ comp.directive = "ShellCompDirectiveError"

(* C15: an EnumSliceFlag built with a resolver, with or without AllAllowed,   *)
(* rejects a Set whose raw input has no token in the resolver's list: Set     *)
(* returns the invalid-argument error (Set("four") with a resolver of one,    *)
(* two, three).                                                               *)
C15_SetRejectsOutsideResolver ==
    (SetReturned /\ ~Static /\ ~AllowedFunc.fails
        /\ ~AllShorthand(Raw)
        /\ \A t \in Members(Split(Raw)) : ~Contains(AllowedFunc.list, t)) =>
        err = "ArgumentInvalid"

\* A constructor has returned and nothing was called yet
Fresh == lastOp.name = "New"
\* The positions of the entries of a constructor's arguments marked with "+"
Marked(args) == {i \in 1..Len(args) : args[i][1] = "+"}
\* An entry without its marker
Stripped(entry) == IF entry[1] = "+" THEN Tail(entry) ELSE entry
First(S) == CHOOSE i \in S : \A j \in S : i <= j

(* C16: NewEnumFlag makes the first "+"-marked entry, its marker stripped,    *)
(* the initial Value and stores that entry in Allowed without the marker; a   *)
(* later marked entry never becomes the default; with no marked entry Value   *)
(* is empty.  Unmarked entries are stored as given, in their order.           *)
C16_NewEnumFlagDefault ==
    (Fresh /\ EnumBuilt /\ EnumAllowedFunc.nil) =>
        /\ Len(EnumAllowed) = Len(lastOp.args)
        /\ \A i \in 1..Len(lastOp.args) :
              i \notin Marked(lastOp.args) => EnumAllowed[i] = lastOp.args[i]
        /\ IF Marked(lastOp.args) = {}
           THEN Value = empty
           ELSE /\ Value = Stripped(lastOp.args[First(Marked(lastOp.args))])
                /\ EnumAllowed[First(Marked(lastOp.args))] = Value

C16_Witness ==
    /\ Fresh /\ EnumBuilt /\ EnumAllowedFunc.nil
    /\ Marked(lastOp.args) = {2, 3}
    /\ Value = two
    /\ EnumAllowed[2] = two

\* The marked entries of a constructor's arguments, stripped, in their order
RECURSIVE MarkedEntries(_)
MarkedEntries(args) ==
    IF args = <<>> THEN <<>>
    ELSE IF Head(args)[1] = "+"
         THEN <<Tail(Head(args))>> \o MarkedEntries(Tail(args))
         ELSE MarkedEntries(Tail(args))

(* C17: NewEnumSliceFlag and NewEnumSliceFlagWithAllAllowed make Default the  *)
(* "+"-marked entries in their order, markers stripped, and Allowed the whole *)
(* list with the markers stripped; Values starts empty, so GetSlice() on the  *)
(* fresh flag returns Default.  Once a Set has been accepted Values is not    *)
(* empty any more, and GetSlice() holds a default only if it is in Values.    *)
C17_NewEnumSliceFlagDefaults ==
    /\ (Fresh /\ Static) =>
          /\ Default = MarkedEntries(lastOp.args)
          /\ Allowed = [i \in 1..Len(lastOp.args) |-> Stripped(lastOp.args[i])]
          /\ Values = <<>>
          /\ ~all
          /\ GetSlice = Default
    /\ (Static /\ SetReturned /\ (err = "nil" \/ Len(prev.Values) > 0)) =>
          Len(Values) > 0
    /\ (Static /\ Len(Values) > 0) =>
          \A d \in Members(Default) :
              d \in Members(GetSlice) => d \in Members(Values)

C17_Witness ==
    /\ Static /\ AllAllowed
    /\ Default = <<one, three>>
    /\ SetReturned /\ err = "nil"
    /\ Values = <<two>>
    /\ GetSlice = <<two>>

(* C18: on a static EnumSliceFlag with AllAllowed driven by Set calls, once   *)
(* Set("all") has been accepted, alone or after other values, the completion  *)
(* callback returns no candidate, "all" included, with the default directive. *)
C18_CompletionAfterAll ==
    (CompletionReturned /\ Static /\ AllAllowed /\ all) =>
        comp = [candidates |-> <<>>, directive |-> "ShellCompDirectiveDefault"]

C18_Witness ==
    /\ CompletionReturned /\ Static /\ AllAllowed /\ all
    /\ Len(Allowed) = 3
    /\ comp.candidates = <<>>
    /\ comp.directive = "ShellCompDirectiveDefault"

(* C19: the completion callback of an EnumFlag returns, with the default      *)
(* directive, the whole static Allowed list in the order of construction when *)
(* there is no resolver, and the resolver's list when the resolver succeeds;  *)
(* the candidates do not depend on the current Value.                         *)
C19_EnumCompletionOffersAllowed ==
    (EnumBuilt /\ CompletionReturned /\ ~EnumAllowedFunc.fails) =>
        /\ comp.directive = "ShellCompDirectiveDefault"
        /\ comp.candidates =
              IF EnumAllowedFunc.nil THEN EnumAllowed ELSE EnumAllowedFunc.list
        /\ EnumAllowedFunc.nil =>
              \A i \in 1..Len(comp.candidates) :
                  Stripped(comp.candidates[i]) = Names[i]

C19_Witness ==
    /\ EnumBuilt /\ CompletionReturned /\ EnumAllowedFunc.nil
    /\ Value = two
    /\ comp.candidates = <<one, two, three>>

\* The string s holds the string p somewhere
HasSubstring(s, p) ==
    \E i \in 1..(Len(s) - Len(p) + 1) : SubSeq(s, i, i + Len(p) - 1) = p

(* C20: String() is "[" followed by Values joined with "," followed by "]"    *)
(* and never holds the "all" marker, in every state reached by Set calls,     *)
(* after Set("all") on a resolver-form flag with AllAllowed as well.          *)
C20_StringWithoutAll ==
    /\ StringOf(Flag) = <<"[">> \o Join(Values) \o <<"]">>
    /\ ~HasSubstring(StringOf(Flag), allToken)

(* C21 as stated: an accepted Set("all") on a static flag with AllAllowed     *)
(* only raises the all mark: Values stays as it was, Allowed is not copied    *)
(* into it.                                                                   *)
C21_SetAllKeepsValues ==
    (SetReturned /\ Static /\ AllShorthand(Raw) /\ err = "nil") =>
        /\ all
        /\ Values = prev.Values

(* C21 amended: an accepted Set("all") on a static flag with AllAllowed       *)
(* raises the all mark and replaces Values by Allowed, whatever Values held.  *)
C21_SetAllCopiesAllowed ==
    (SetReturned /\ Static /\ AllShorthand(Raw)) =>
        /\ err = "nil"
        /\ all
        /\ Values = Allowed

C21_Witness ==
    /\ SetReturned /\ AllShorthand(Raw) /\ err = "nil"
    /\ Static
    /\ ~prev.all
    /\ prev.Values = <<two, one>>
    /\ Values = <<one, two, three>>
    /\ all

(* C22: Set on an EnumFlag with a resolver calls the resolver when Allowed is *)
(* empty and keeps its list in Allowed before validating the value (a list    *)
(* already there is kept), and never returns the resolver's error: the value  *)
(* is validated against Allowed, which a failed resolver leaves empty, so Set *)
(* returns nil for a value in Allowed and the invalid-argument error for any  *)
(* other.                                                                     *)
C22_EnumSetResolves ==
    (SetReturned /\ EnumBuilt /\ ~EnumAllowedFunc.nil) =>
        /\ ~EnumAllowedFunc.fails => EnumAllowed = EnumAllowedFunc.list
        /\ err = IF Contains(EnumAllowed, Raw) THEN "nil" ELSE "ArgumentInvalid"
        /\ Value = IF err = "nil" THEN Raw ELSE prev.Value

C24_AllOnlyByWholeAll ==
    [][/\ (~all /\ all') =>
              /\ lastOp'.name = "Set"
              /\ lastOp'.args[1] = allToken
              /\ AllAllowed
       /\ (lastOp'.name = "Set" /\ ~(lastOp'.args[1] = allToken /\ AllAllowed)) =>
              /\ all' = all
              /\ AllowedFunc.nil =>
                    /\ allToken \in Members(Values') => allToken \in Members(Values)
                    /\ err' = IF \E t \in Members(Split(lastOp'.args[1])) :
                                     Contains(Allowed, t)
                              THEN "nil" ELSE "ArgumentInvalid"]_vars

C24_Witness ==
    /\ SetReturned /\ Static /\ AllAllowed
    /\ Raw = Join(<<one, allToken>>)
    /\ err = "nil"
    /\ ~all
    /\ Values = <<one>>

\* The marked entries after the first marked one
LaterMarked(args) == {i \in Marked(args) : i # First(Marked(args))}

(* C25: NewEnumFlag strips the "+" from the entry that becomes the default    *)
(* only: every marked entry after it is stored in Allowed as given, with its  *)
(* "+".  A static flag's Allowed never changes and the completion callback    *)
(* returns it, so the candidates hold the marked form of those entries and    *)
(* not their bare names.                                                      *)
C25_LaterMarkedKept ==
    [][(EnumBuilt /\ EnumAllowedFunc.nil) =>
          /\ EnumAllowed' = EnumAllowed
          /\ lastOp'.name = "Completion" => comp'.candidates = EnumAllowed
          /\ lastOp.name = "New" =>
                \A i \in LaterMarked(lastOp.args) :
                    /\ EnumAllowed[i] = lastOp.args[i]
                    /\ lastOp'.name = "Completion" =>
                          /\ comp'.candidates[i] = lastOp.args[i]
                          /\ Stripped(lastOp.args[i]) \notin Members(comp'.candidates)
      ]_vars

C25_Witness ==
    /\ CompletionReturned /\ EnumBuilt /\ EnumAllowedFunc.nil
    /\ Value = four
    /\ comp.candidates = <<one, two, Plus(three)>>

(* C26: Contains does not look at the defaults: while no value has been       *)
(* accepted (Values empty, all false) Contains(c) is false for every c, the   *)
(* default values that Get() returns in that state included.                  *)
C26_ContainsIgnoresDefaults ==
    (Len(Values) = 0 /\ ~all) =>
        /\ \A c \in Candidates : ~ContainsOf(Flag, c)
        /\ \A d \in Members(GetOf(Flag)) : ~ContainsOf(Flag, d)

C26_Witness ==
    /\ SetReturned /\ err = "ArgumentInvalid"
    /\ Len(Values) = 0 /\ ~all
    /\ GetOf(Flag) = <<one, two>>
    /\ Contains(Allowed, one)
    /\ ~ContainsOf(Flag, one)

====
